---- MODULE Spec2Model ----
(***************************************************************************)
(* Model of flask_saml2.xml_parser.XmlParser (parse, signature test,       *)
(* verification, xpath lookups) and of flask_saml2.utils.cached_property.   *)
(*                                                                         *)
(* A load is the construction XmlParser(xml_string, certificate).  It is   *)
(* modelled in two steps so that loads of several instances interleave:    *)
(*   Construct   = xml_parser.py lines 44-50 (store certificate and        *)
(*                 xml_string, parse_request)                              *)
(*   CheckSigned = xml_parser.py lines 51-52 (is_signed, parse_signed)     *)
(* The XML parser (defusedxml.lxml / lxml) and the signature verifier      *)
(* (signxml.XMLVerifier) are libraries; they are modelled by what they do  *)
(* on the abstract documents below.                                        *)
(***************************************************************************)
EXTENDS Integers, Sequences, FiniteSets, TLC

\* ---------------------------------------------------------------- bounds
NumParsers == 2
NumObjs == 2
MaxRaises == 2

Parsers == 1..NumParsers
Objs == 1..NumObjs

\* ------------------------------------------------------------ documents
None == "None"
Unset == "Unset"
\* certA is the certificate the caller holds out of band; certB is another
\* party's, met only as the signer of, or embedded in, a document
Certs == {"certA", "certB"}
TrustCertificates == {"certA"}
Classes == {"XmlParser", "ResponseParser"}

NoSig ==
  [present |-> FALSE, pos |-> "none", ref |-> "none", signer |-> None,
   embedded |-> None, digestOk |-> FALSE, algOk |-> FALSE]

\* a signature on the Assertion, made and embedded by the holder of certA
SigA ==
  [present |-> TRUE, pos |-> "expected", ref |-> "Assertion", signer |-> "certA",
   embedded |-> "certA", digestOk |-> TRUE, algOk |-> TRUE]

Plain == [wellformed |-> TRUE, entity |-> FALSE, injected |-> FALSE, sig |-> NoSig]

\* the raw inputs (xml_string) a load may be given
Docs ==
  { [Plain EXCEPT !.wellformed = FALSE],                       \* unclosed tag
    [Plain EXCEPT !.wellformed = FALSE, !.sig = SigA],         \* signed, truncated
    [Plain EXCEPT !.entity = TRUE],                            \* <!ENTITY x SYSTEM "file:///...">
    Plain,                                                     \* unsigned
    [Plain EXCEPT !.sig = [SigA EXCEPT !.pos = "stray"]],      \* signature in an unexpected place
    [Plain EXCEPT !.sig = SigA, !.injected = TRUE],            \* validly signed + unsigned sibling
    [Plain EXCEPT !.sig = SigA, !.entity = TRUE],              \* signed + entity declaration
    [Plain EXCEPT !.sig = [SigA EXCEPT !.ref = "Response", !.embedded = None]],
    [Plain EXCEPT !.sig = [SigA EXCEPT !.ref = "Response", !.digestOk = FALSE],
                  !.injected = TRUE],                          \* digest mismatch
    [Plain EXCEPT !.sig = [SigA EXCEPT !.algOk = FALSE]],      \* unsupported algorithm
    [Plain EXCEPT !.sig = [SigA EXCEPT !.signer = "certB", !.embedded = "certB"]] }

NoDoc == [Plain EXCEPT !.wellformed = FALSE, !.entity = TRUE, !.injected = TRUE]

NoTree == [elems |-> {}, sig |-> NoSig]

\* the element tree a well-formed document stands for
TreeOf(doc) ==
  [elems |-> {"Response", "Assertion"}
             \cup (IF doc.injected THEN {"Injected"} ELSE {})
             \cup (IF doc.sig.present THEN {"Signature"} ELSE {}),
   sig |-> doc.sig]

\* ------------------------------------------------------- XML loading
MalformedMessage == "Could not parse request XML"

\* lxml.etree.fromstring under a parser configuration
lxml_fromstring(doc, resolve_entities) ==
  IF ~doc.wellformed
    THEN [ok |-> FALSE, tree |-> NoTree, error |-> "lxml.etree.Error", fetched |-> FALSE]
    ELSE [ok |-> TRUE, tree |-> TreeOf(doc), error |-> None,
          fetched |-> doc.entity /\ resolve_entities]

\* lxml.etree.fromstring with lxml's default parser: entities are resolved
plain_fromstring(doc) ==
  lxml_fromstring(doc, TRUE)

\* defusedxml.lxml.fromstring: resolve_entities=False, then check_docinfo
\* (forbid_dtd=False, forbid_entities=True)
fromstring(doc) ==
  LET r == lxml_fromstring(doc, FALSE)
  IN IF r.ok /\ doc.entity
       THEN [ok |-> FALSE, tree |-> NoTree, error |-> "EntitiesForbidden", fetched |-> r.fetched]
       ELSE r

\* parse_request without the except clause
parse_request_uncaught(xml_string) ==
  fromstring(xml_string)

parse_request(xml_string) ==
  LET r == fromstring(xml_string)
  IN IF r.error = "lxml.etree.Error"
       THEN [r EXCEPT !.error = MalformedMessage]
       ELSE r

\* ------------------------------------------------------- is_signed
\* the predicate of a concrete document flavour: a signature marker in the
\* expected structural position
flavor_is_signed(tree) ==
  IF tree.sig.present /\ tree.sig.pos = "expected" THEN "True" ELSE "False"

\* a base class that answers instead of raising
is_signed_default_false(cls, tree) ==
  IF cls = "XmlParser" THEN "False" ELSE flavor_is_signed(tree)

is_signed(cls, tree) ==
  IF cls = "XmlParser" THEN "NotImplementedError" ELSE flavor_is_signed(tree)

\* ------------------------------------------------------- verification
SignatureErrors == {"InvalidInput", "InvalidSignature", "InvalidDigest"}

\* the elements a signature's reference covers
Covered(tree) ==
  IF tree.sig.ref = "Assertion" THEN {"Assertion"} ELSE tree.elems \ {"Signature"}

SignedXml(tree) ==
  [elems |-> Covered(tree), sig |-> NoSig]

\* signxml.XMLVerifier().verify(tree, x509_cert=cert)
verify(tree, cert) ==
  LET s == tree.sig
      key == IF cert # None THEN cert ELSE s.embedded
      fail(e) == [ok |-> FALSE, tree |-> NoTree, error |-> e]
  IN IF ~s.present \/ ~s.algOk \/ key = None THEN fail("InvalidInput")
     ELSE IF key # s.signer THEN fail("InvalidSignature")
     ELSE IF ~s.digestOk THEN fail("InvalidDigest")
     ELSE [ok |-> TRUE, tree |-> SignedXml(tree), error |-> None]

\* parse_signed that hands back the tree it was given once it verified
parse_signed_whole(xml_tree, cert) ==
  LET v == verify(xml_tree, cert)
  IN IF v.ok THEN [v EXCEPT !.tree = xml_tree] ELSE v

parse_signed(xml_tree, cert) ==
  verify(xml_tree, cert)

\* ------------------------------------------------------- state
VARIABLES
  pc,              \* per instance: "idle", "parsed", "done", "raised"
  call,            \* per instance: the constructor's arguments
  certificate,     \* per instance: the instance attribute, Unset when not assigned
  clsCertificate,  \* the class attribute XmlParser.certificate
  xml_string,      \* per instance
  xml_tree,        \* per instance
  outcome,         \* per instance: what the caller receives
  verifyLog,       \* per instance: the (tree, certificate) pairs handed to the verifier
  isSignedCalls,   \* per instance: evaluations of is_signed
  fetches,         \* external resources fetched while parsing
  NAMESPACE_MAP,   \* the module-level namespace table
  nsUsed,          \* the namespace tables lookups were evaluated with
  cache,           \* per object: obj.__dict__[name], Missing when absent
  funcReturns,     \* per object: times the wrapped function returned
  funcRaises,      \* per object: times the wrapped function raised
  firstValue,      \* per object: the first value the wrapped function returned
  lastOp           \* per object: the last descriptor operation and its result

parserVars ==
  <<pc, call, certificate, clsCertificate, xml_string, xml_tree, outcome,
    verifyLog, isSignedCalls, fetches, NAMESPACE_MAP, nsUsed>>
cacheVars == <<cache, funcReturns, funcRaises, firstValue, lastOp>>
vars == <<parserVars, cacheVars>>

NoCall == [cls |-> "XmlParser", xml_string |-> NoDoc, certificate |-> None]
NoOutcome == [kind |-> "none", tree |-> NoTree, error |-> None]

Rejected(e) == [kind |-> "Rejected", tree |-> NoTree, error |-> e]
Unsigned(t) == [kind |-> "Unsigned", tree |-> t, error |-> None]
Verified(t) == [kind |-> "Verified", tree |-> t, error |-> None]

\* ------------------------------------------------------- namespaces, xpath
\* the table flask_saml2.xml_templates binds to NAMESPACE_MAP
NamespaceTable ==
  [samlp |-> "urn:oasis:names:tc:SAML:2.0:protocol",
   saml |-> "urn:oasis:names:tc:SAML:2.0:assertion",
   ds |-> "http://www.w3.org/2000/09/xmldsig#"]

\* prefix bindings a document can declare for itself
DocumentNsmap ==
  [NamespaceTable EXCEPT !.saml = "urn:attacker"]

Statements == {"//saml:Assertion", "//ds:Signature", "//samlp:Response"}

QName(e) ==
  CASE e = "Response" -> [uri |-> NamespaceTable.samlp, local |-> "Response"]
    [] e = "Signature" -> [uri |-> NamespaceTable.ds, local |-> "Signature"]
    [] OTHER -> [uri |-> NamespaceTable.saml, local |-> "Assertion"]

\* the qualified name an xpath statement selects under a namespace table
Selected(stmt, namespaces) ==
  CASE stmt = "//saml:Assertion" -> [uri |-> namespaces.saml, local |-> "Assertion"]
    [] stmt = "//ds:Signature" -> [uri |-> namespaces.ds, local |-> "Signature"]
    [] OTHER -> [uri |-> namespaces.samlp, local |-> "Response"]

\* lxml: base.xpath(statement, namespaces=...)
xpath(base, stmt, namespaces) ==
  {e \in base.elems : QName(e) = Selected(stmt, namespaces)}

\* a namespace map taken from the document instead of the module
get_namespace_map_of_document(self) ==
  IF xml_tree[self].elems = {} THEN NAMESPACE_MAP ELSE DocumentNsmap

get_namespace_map(self) ==
  NAMESPACE_MAP

_xpath(self, base, stmt) ==
  xpath(base, stmt, get_namespace_map(self))

_xpath_xml_tree(self, stmt) ==
  _xpath(self, xml_tree[self], stmt)

\* ------------------------------------------------------- the load
\* self.certificate assigned on the class instead of the instance
SetCertificateOnClass(self, cert) ==
  /\ clsCertificate' = IF cert # None THEN cert ELSE clsCertificate
  /\ UNCHANGED certificate

\* lines 46-47
SetCertificate(self, cert) ==
  /\ certificate' = [certificate EXCEPT ![self] = IF cert # None THEN cert ELSE @]
  /\ UNCHANGED clsCertificate

\* attribute lookup self.certificate: instance first, then class
SelfCertificate(self) ==
  IF certificate[self] # Unset THEN certificate[self] ELSE clsCertificate

\* lines 44-50
Construct(self, cls, doc, cert) ==
  /\ pc[self] = "idle"
  /\ call' = [call EXCEPT ![self] = [cls |-> cls, xml_string |-> doc, certificate |-> cert]]
  /\ SetCertificate(self, cert)
  /\ xml_string' = [xml_string EXCEPT ![self] = doc]
  /\ LET r == parse_request(doc)
     IN /\ fetches' = fetches + (IF r.fetched THEN 1 ELSE 0)
        /\ IF r.ok
             THEN /\ xml_tree' = [xml_tree EXCEPT ![self] = r.tree]
                  /\ pc' = [pc EXCEPT ![self] = "parsed"]
                  /\ UNCHANGED outcome
             ELSE /\ pc' = [pc EXCEPT ![self] = "raised"]
                  /\ outcome' = [outcome EXCEPT ![self] = Rejected(r.error)]
                  /\ UNCHANGED xml_tree
  /\ UNCHANGED <<verifyLog, isSignedCalls, NAMESPACE_MAP, nsUsed>>

\* line 52 with a verification failure answered by the tree parsed before it
VerifyStepLenient(self) ==
  LET c == SelfCertificate(self)
      v == parse_signed(xml_tree[self], c)
  IN /\ verifyLog' = [verifyLog EXCEPT ![self] = Append(@, [tree |-> xml_tree[self], cert |-> c])]
     /\ pc' = [pc EXCEPT ![self] = "done"]
     /\ xml_tree' = [xml_tree EXCEPT ![self] = IF v.ok THEN v.tree ELSE @]
     /\ outcome' = [outcome EXCEPT ![self] =
                      IF v.ok THEN Verified(v.tree) ELSE Unsigned(xml_tree[self])]

\* line 52 verifying only when a certificate was supplied
VerifyStepNeedsCertificate(self) ==
  LET c == SelfCertificate(self)
      v == parse_signed(xml_tree[self], c)
  IN IF c = None
       THEN /\ pc' = [pc EXCEPT ![self] = "raised"]
            /\ outcome' = [outcome EXCEPT ![self] = Rejected("InvalidInput")]
            /\ UNCHANGED <<verifyLog, xml_tree>>
       ELSE /\ verifyLog' = [verifyLog EXCEPT ![self] = Append(@, [tree |-> xml_tree[self], cert |-> c])]
            /\ pc' = [pc EXCEPT ![self] = IF v.ok THEN "done" ELSE "raised"]
            /\ xml_tree' = [xml_tree EXCEPT ![self] = IF v.ok THEN v.tree ELSE @]
            /\ outcome' = [outcome EXCEPT ![self] =
                             IF v.ok THEN Verified(v.tree) ELSE Rejected(v.error)]

\* line 52: self.xml_tree = self.parse_signed(self.xml_tree, self.certificate)
VerifyStep(self) ==
  LET c == SelfCertificate(self)
      v == parse_signed(xml_tree[self], c)
  IN /\ verifyLog' = [verifyLog EXCEPT ![self] = Append(@, [tree |-> xml_tree[self], cert |-> c])]
     /\ pc' = [pc EXCEPT ![self] = IF v.ok THEN "done" ELSE "raised"]
     /\ xml_tree' = [xml_tree EXCEPT ![self] = IF v.ok THEN v.tree ELSE @]
     /\ outcome' = [outcome EXCEPT ![self] =
                      IF v.ok THEN Verified(v.tree) ELSE Rejected(v.error)]

\* line 51 ignored: the verifier is run whatever is_signed answered
PassThroughVerifying(self) ==
  VerifyStep(self)

\* line 51 false: __init__ returns with the parsed tree
PassThrough(self) ==
  /\ pc' = [pc EXCEPT ![self] = "done"]
  /\ outcome' = [outcome EXCEPT ![self] = Unsigned(xml_tree[self])]
  /\ UNCHANGED <<verifyLog, xml_tree>>

\* lines 51-52
CheckSigned(self) ==
  /\ pc[self] = "parsed"
  /\ isSignedCalls' = [isSignedCalls EXCEPT ![self] = @ + 1]
  /\ LET s == is_signed(call[self].cls, xml_tree[self])
     IN CASE s = "True" -> VerifyStep(self)
          [] s = "False" -> PassThrough(self)
          [] OTHER -> /\ pc' = [pc EXCEPT ![self] = "raised"]
                      /\ outcome' = [outcome EXCEPT ![self] = Rejected(s)]
                      /\ UNCHANGED <<verifyLog, xml_tree>>
  /\ UNCHANGED <<call, certificate, clsCertificate, xml_string, fetches, NAMESPACE_MAP, nsUsed>>

\* a caller's query on a parser it was handed: _xpath_xml_tree(statement)
Lookup(self, stmt) ==
  /\ pc[self] = "done"
  /\ nsUsed' = nsUsed \cup {get_namespace_map(self)}
  /\ UNCHANGED <<pc, call, certificate, clsCertificate, xml_string, xml_tree, outcome,
                 verifyLog, isSignedCalls, fetches, NAMESPACE_MAP>>

\* ------------------------------------------------------- cached_property
Missing == "Missing"
Values == {"v1", "v2"}

\* __get__ that does not store what it computed
cached_get_nostore(d, computed) ==
  IF d = Missing
    THEN [value |-> computed, dict |-> d, called |-> TRUE]
    ELSE [value |-> d, dict |-> d, called |-> FALSE]

\* __get__ (utils.py lines 42-50) on an object whose __dict__ entry is d, where
\* the wrapped function would return computed
cached_get(d, computed) ==
  IF d = Missing
    THEN [value |-> computed, dict |-> computed, called |-> TRUE]
    ELSE [value |-> d, dict |-> d, called |-> FALSE]

\* an ordinary writable attribute
cached_set_writable(d, v) ==
  [dict |-> v, result |-> "ok"]

\* __set__ (lines 52-53): raises AttributeError; building the message reads
\* self.name, which the descriptor lacks, and that is an AttributeError too
cached_set(d, v) ==
  [dict |-> d, result |-> "AttributeError"]

\* __delete__ (lines 55-56): AttributeError, as for __set__
cached_delete(d) ==
  [dict |-> d, result |-> "AttributeError"]

Get(o) ==
  \/ \E v \in Values :
       LET r == cached_get(cache[o], v)
       IN /\ cache' = [cache EXCEPT ![o] = r.dict]
          /\ funcReturns' = [funcReturns EXCEPT ![o] = IF r.called THEN @ + 1 ELSE @]
          /\ firstValue' = [firstValue EXCEPT ![o] =
                              IF r.called /\ @ = Missing THEN v ELSE @]
          /\ lastOp' = [lastOp EXCEPT ![o] = [op |-> "get", result |-> r.value]]
          /\ UNCHANGED funcRaises
  \/ /\ cached_get(cache[o], Missing).called
     /\ funcRaises[o] < MaxRaises
     /\ funcRaises' = [funcRaises EXCEPT ![o] = @ + 1]
     /\ lastOp' = [lastOp EXCEPT ![o] = [op |-> "get", result |-> "Exception"]]
     /\ UNCHANGED <<cache, funcReturns, firstValue>>

Set(o, v) ==
  LET r == cached_set(cache[o], v)
  IN /\ cache' = [cache EXCEPT ![o] = r.dict]
     /\ lastOp' = [lastOp EXCEPT ![o] = [op |-> "set", result |-> r.result]]
     /\ UNCHANGED <<funcReturns, funcRaises, firstValue>>

Delete(o) ==
  LET r == cached_delete(cache[o])
  IN /\ cache' = [cache EXCEPT ![o] = r.dict]
     /\ lastOp' = [lastOp EXCEPT ![o] = [op |-> "delete", result |-> r.result]]
     /\ UNCHANGED <<funcReturns, funcRaises, firstValue>>

\* ------------------------------------------------------- specifications
Init ==
  /\ pc = [p \in Parsers |-> "idle"]
  /\ call = [p \in Parsers |-> NoCall]
  /\ certificate = [p \in Parsers |-> Unset]
  /\ clsCertificate = None
  /\ xml_string = [p \in Parsers |-> NoDoc]
  /\ xml_tree = [p \in Parsers |-> NoTree]
  /\ outcome = [p \in Parsers |-> NoOutcome]
  /\ verifyLog = [p \in Parsers |-> <<>>]
  /\ isSignedCalls = [p \in Parsers |-> 0]
  /\ fetches = 0
  /\ NAMESPACE_MAP = NamespaceTable
  /\ nsUsed = {}
  /\ cache = [o \in Objs |-> Missing]
  /\ funcReturns = [o \in Objs |-> 0]
  /\ funcRaises = [o \in Objs |-> 0]
  /\ firstValue = [o \in Objs |-> Missing]
  /\ lastOp = [o \in Objs |-> [op |-> "none", result |-> "none"]]

Next ==
  \/ \E p \in Parsers, cls \in Classes, doc \in Docs, cert \in TrustCertificates \cup {None} :
       Construct(p, cls, doc, cert) /\ UNCHANGED cacheVars
  \/ \E p \in Parsers : CheckSigned(p) /\ UNCHANGED cacheVars
  \/ \E p \in Parsers, stmt \in Statements : Lookup(p, stmt) /\ UNCHANGED cacheVars

Spec == Init /\ [][Next]_vars

NextCache ==
  \/ \E o \in Objs : Get(o) /\ UNCHANGED parserVars
  \/ \E o \in Objs, v \in Values : Set(o, v) /\ UNCHANGED parserVars
  \/ \E o \in Objs : Delete(o) /\ UNCHANGED parserVars

SpecCache == Init /\ [][NextCache]_vars

\* ------------------------------------------------------- a load run alone
\* __init__ (lines 38-52) run from start to end on its own arguments
LoadAlone(c) ==
  LET r == parse_request(c.xml_string)
  IN IF ~r.ok THEN Rejected(r.error)
     ELSE LET s == is_signed(c.cls, r.tree)
          IN CASE s = "True" ->
                    LET v == parse_signed(r.tree, c.certificate)
                    IN IF v.ok THEN Verified(v.tree) ELSE Rejected(v.error)
               [] s = "False" -> Unsigned(r.tree)
               [] OTHER -> Rejected(s)

\* ------------------------------------------------------- properties
Finished(p) == pc[p] \in {"done", "raised"}
Started(p) == pc[p] # "idle"
DocOf(p) == call[p].xml_string
ParsedOf(p) == TreeOf(DocOf(p))
\* the load parsed its document and is_signed() answered True / False
SignedLoad(p) ==
  /\ Finished(p)
  /\ parse_request(DocOf(p)).ok
  /\ is_signed(call[p].cls, ParsedOf(p)) = "True"
UnsignedLoad(p) ==
  /\ Finished(p)
  /\ parse_request(DocOf(p)).ok
  /\ is_signed(call[p].cls, ParsedOf(p)) = "False"

\* C1: a signed document whose verification fails ends the load in a
\* signature error: the verifier ran exactly once, nothing is handed to the
\* caller, and the outcome is neither Unsigned nor Verified.
C1_VerifierFailureRejects ==
  \A p \in Parsers :
    (SignedLoad(p) /\ ~verify(ParsedOf(p), call[p].certificate).ok) =>
      /\ pc[p] = "raised"
      /\ outcome[p].kind = "Rejected"
      /\ outcome[p].error \in SignatureErrors
      /\ outcome[p].tree = NoTree
      /\ Len(verifyLog[p]) = 1

C1_Witness ==
  \E p \in Parsers :
    /\ SignedLoad(p)
    /\ DocOf(p).injected
    /\ call[p].certificate = "certA"
    /\ outcome[p] = Rejected("InvalidDigest")
    /\ xml_tree[p] = ParsedOf(p)

\* C2: after a successful verification xml_tree is exactly the signed subtree
\* the verifier returned, so every lookup on it yields covered elements only;
\* an injected unsigned sibling is not in the tree.
C2_VerifiedTreeIsSignedSubtree ==
  \A p \in Parsers :
    outcome[p].kind = "Verified" =>
      /\ xml_tree[p] = SignedXml(ParsedOf(p))
      /\ outcome[p].tree = xml_tree[p]
      /\ "Injected" \notin xml_tree[p].elems
      /\ \A stmt \in Statements : _xpath_xml_tree(p, stmt) \subseteq Covered(ParsedOf(p))

C2_Witness ==
  \E p \in Parsers :
    /\ outcome[p].kind = "Verified"
    /\ DocOf(p).injected
    /\ "Injected" \in ParsedOf(p).elems
    /\ _xpath_xml_tree(p, "//saml:Assertion") = {"Assertion"}

\* C3 as stated: without a certificate a signed document is still verified
\* (against its embedded certificate), and a success is an outcome distinct
\* from every outcome of a verification against a supplied certificate.
C3_Original ==
  \A p \in Parsers :
    (SignedLoad(p) /\ call[p].certificate = None) =>
      /\ Len(verifyLog[p]) = 1
      /\ \A q \in Parsers :
           (outcome[p].kind = "Verified" /\ outcome[q].kind = "Verified"
              /\ call[q].certificate # None) => outcome[p] # outcome[q]

\* C3 amended: without a certificate a signed document is still verified,
\* once, with certificate None; a success is the ordinary Verified outcome
\* carrying the signed subtree, equal to the outcome of a successful
\* verification of the same document against a supplied certificate; only
\* the parser's certificate attribute, left at None, records the mode.
C3_EmbeddedVerificationNotDistinct ==
  \A p \in Parsers :
    (SignedLoad(p) /\ call[p].certificate = None) =>
      /\ verifyLog[p] = <<[tree |-> ParsedOf(p), cert |-> None]>>
      /\ SelfCertificate(p) = None
      /\ verify(ParsedOf(p), None).ok => outcome[p] = Verified(SignedXml(ParsedOf(p)))
      /\ \A q \in Parsers :
           (outcome[p].kind = "Verified" /\ outcome[q].kind = "Verified"
              /\ DocOf(q) = DocOf(p)) => outcome[q] = outcome[p]

C3_Witness ==
  \E p, q \in Parsers :
    /\ SignedLoad(p) /\ call[p].certificate = None
    /\ SignedLoad(q) /\ call[q].certificate = "certA"
    /\ DocOf(p) = DocOf(q)
    /\ outcome[p].kind = "Verified"
    /\ outcome[q] = outcome[p]

\* C4: a well-formed document for which is_signed() is false never reaches
\* the verifier and yields Unsigned with the parser's full tree, with or
\* without a certificate.
C4_UnsignedPassesThrough ==
  \A p \in Parsers :
    UnsignedLoad(p) =>
      /\ pc[p] = "done"
      /\ verifyLog[p] = <<>>
      /\ outcome[p] = Unsigned(ParsedOf(p))
      /\ xml_tree[p] = ParsedOf(p)

C4_Witness ==
  \E p \in Parsers :
    /\ UnsignedLoad(p)
    /\ call[p].certificate = "certA"
    /\ "Signature" \in outcome[p].tree.elems
    /\ outcome[p].kind = "Unsigned"

\* C5: a document with an external entity declaration is rejected at parsing
\* (entity rejection or malformed document), yields no tree, and nothing is
\* fetched at any step.
C5_ExternalEntityRejected ==
  /\ fetches = 0
  /\ \A p \in Parsers :
       (Started(p) /\ DocOf(p).entity) =>
         /\ pc[p] = "raised"
         /\ outcome[p].kind = "Rejected"
         /\ outcome[p].error \in {"EntitiesForbidden", MalformedMessage}
         /\ outcome[p].tree = NoTree
         /\ xml_tree[p] = NoTree

C5_Witness ==
  \E p \in Parsers :
    /\ Started(p)
    /\ DocOf(p).entity
    /\ DocOf(p).sig.present
    /\ outcome[p] = Rejected("EntitiesForbidden")

\* C6 as stated: every input the safe loader cannot parse fails with the
\* fixed ValueError message, and is_signed and the verifier are not evaluated.
C6_Original ==
  \A p \in Parsers :
    (Started(p) /\ ~fromstring(DocOf(p)).ok) =>
      /\ outcome[p] = Rejected(MalformedMessage)
      /\ isSignedCalls[p] = 0
      /\ verifyLog[p] = <<>>

\* C6 amended: an input on which the XML parser raises lxml.etree.Error fails
\* with the fixed ValueError message whatever the input; an input that parses
\* but declares an entity fails with EntitiesForbidden, which parse_request
\* does not convert; in both cases is_signed and the verifier are not
\* evaluated.
C6_UnparsableRejected ==
  \A p \in Parsers :
    (Started(p) /\ ~fromstring(DocOf(p)).ok) =>
      /\ pc[p] = "raised"
      /\ isSignedCalls[p] = 0
      /\ verifyLog[p] = <<>>
      /\ outcome[p] =
           IF DocOf(p).wellformed THEN Rejected("EntitiesForbidden")
           ELSE Rejected(MalformedMessage)

C6_Witness ==
  \E p, q \in Parsers :
    /\ Started(p) /\ Started(q)
    /\ ~DocOf(p).wellformed /\ ~DocOf(q).wellformed
    /\ DocOf(p) # DocOf(q)
    /\ outcome[p] = Rejected(MalformedMessage)
    /\ outcome[q] = outcome[p]

\* C7: the base XmlParser has no signature predicate: for a document that
\* parses, its load fails after parsing with NotImplementedError, the
\* verifier is not invoked, and the outcome is neither Unsigned nor Verified.
C7_BaseClassYieldsNoOutcome ==
  \A p \in Parsers :
    (Started(p) /\ call[p].cls = "XmlParser") =>
      /\ pc[p] # "done"
      /\ outcome[p].kind \notin {"Unsigned", "Verified"}
      /\ verifyLog[p] = <<>>
      /\ (pc[p] = "raised" /\ parse_request(DocOf(p)).ok) =>
           /\ outcome[p] = Rejected("NotImplementedError")
           /\ isSignedCalls[p] = 1

C7_Witness ==
  \E p \in Parsers :
    /\ call[p].cls = "XmlParser"
    /\ DocOf(p).sig = SigA
    /\ call[p].certificate = "certA"
    /\ outcome[p] = Rejected("NotImplementedError")

\* C8: under any interleaving, each load's verifier receives exactly the
\* certificate supplied to that load, and each finished load's outcome is the
\* one the load yields when run alone.
C8_LoadsIndependent ==
  \A p \in Parsers :
    /\ \A i \in 1..Len(verifyLog[p]) : verifyLog[p][i].cert = call[p].certificate
    /\ Finished(p) => outcome[p] = LoadAlone(call[p])

C8_Witness ==
  \E p, q \in Parsers :
    /\ p # q
    /\ pc[p] = "done" /\ call[p].certificate = None /\ Len(verifyLog[p]) = 1
    /\ pc[q] = "raised" /\ call[q].certificate = "certA" /\ Len(verifyLog[q]) = 1
    /\ DocOf(p) = DocOf(q)

\* C9: every lookup is evaluated with the one fixed namespace table, whatever
\* the document, certificate, statement or earlier lookups, and no operation
\* changes the table.
C9_FixedNamespaceTable ==
  /\ NAMESPACE_MAP = NamespaceTable
  /\ nsUsed \subseteq {NamespaceTable}

C9_Witness ==
  /\ nsUsed = {NamespaceTable}
  /\ \E p, q \in Parsers :
       /\ pc[p] = "done" /\ pc[q] = "done"
       /\ outcome[p].kind = "Verified" /\ outcome[q].kind = "Unsigned"

\* C10: the wrapped function returns at most once per object, on the first
\* get; every later get returns that first value; every set or delete raises
\* AttributeError and leaves the cached value unchanged.
C10_CachedOnce ==
  /\ [](\A o \in Objs :
          /\ funcReturns[o] <= 1
          /\ cache[o] = firstValue[o]
          /\ (cache[o] # Missing) = (funcReturns[o] = 1)
          /\ (lastOp[o].op = "get" /\ lastOp[o].result # "Exception") =>
               (lastOp[o].result = firstValue[o] /\ funcReturns[o] = 1)
          /\ (lastOp[o].op = "get" /\ lastOp[o].result = "Exception") => funcRaises[o] >= 1
          /\ lastOp[o].op \in {"set", "delete"} => lastOp[o].result = "AttributeError")
  /\ [][\A o \in Objs :
          /\ cache[o] # Missing => cache'[o] = cache[o]
          /\ lastOp'[o].op \in {"set", "delete"} => cache'[o] = cache[o]]_vars

C10_Witness ==
  \E o \in Objs :
    /\ funcReturns[o] = 1
    /\ funcRaises[o] >= 1
    /\ cache[o] = "v2"
    /\ lastOp[o] = [op |-> "delete", result |-> "AttributeError"]

====
